---- MODULE Spec2Model ----
(***************************************************************************)
(* Model of the build script of sundials-sys (build.rs): the sparse-solver *)
(* locator, the vendor builder, the binding generator, the byte-level      *)
(* version sniffer and the orchestrator main.                              *)
(*                                                                         *)
(* A byte of the bindings file is a one-character string; the item "ERR"   *)
(* of a stream is a read that failed (Some(Err(_)) of the Bytes iterator). *)
(* Option<T> is a record [some, v]; the result of the sniffer carries one  *)
(* more field, panic, for the expect() of line 204.                        *)
(***************************************************************************)
EXTENDS Integers, Sequences, FiniteSets, TLC

(* ------------------------------------------------------------------ *)
(* Bounds of the model                                                 *)
(* ------------------------------------------------------------------ *)

\* Longest run of non-digit bytes inserted between `=` and the digits.
MaxGap == 2

\* Largest major version a generated unit declares.
MaxVersion == 8

\* Longest list of include directories given to generate_bindings on its own
MaxDirs == 3

(* ------------------------------------------------------------------ *)
(* Program constants                                                   *)
(* ------------------------------------------------------------------ *)

\* build.rs:269  `if v >= 6`
MinAccepted == 6

\* build.rs:313  `if sundials_version_major >= 7`
CoreSince == 7

(* ------------------------------------------------------------------ *)
(* Option values                                                       *)
(* ------------------------------------------------------------------ *)

None == [some |-> FALSE, v |-> 0]

Some(n) == [some |-> TRUE, v |-> n]

NoDir == [some |-> FALSE, v |-> ""]

SomeDir(d) == [some |-> TRUE, v |-> d]

\* Result of get_sundials_version_major: an Option<u32>, or the panic of
\* File::open(..).expect(..).
Ret(o) == [panic |-> FALSE, some |-> o.some, v |-> o.v]

Panicked == [panic |-> TRUE, some |-> FALSE, v |-> 0]

(* ------------------------------------------------------------------ *)
(* Bytes                                                               *)
(* ------------------------------------------------------------------ *)

ERR == "ERR"

Digits == <<"0","1","2","3","4","5","6","7","8","9">>

\* u8::is_ascii_digit
is_ascii_digit(c) == \E k \in 1..10 : Digits[k] = c

DigitVal(c) == (CHOOSE k \in 1..10 : Digits[k] = c) - 1

\* "UNDIALS_VERSION_MAJOR", build.rs:208
MarkerTail == <<"U","N","D","I","A","L","S","_","V","E","R","S","I","O","N","_","M","A","J","O","R">>

\* u32::MAX in decimal
U32MaxDigits == <<"4","2","9","4","9","6","7","2","9","5">>

(* ------------------------------------------------------------------ *)
(* get_sundials_version_major, build.rs:203-233                        *)
(* ------------------------------------------------------------------ *)

RECURSIVE FindFrom(_, _, _)
\* Iterator::find(|c| c.is_ok_and(|&c| c == ch)) from position i: the index
\* of the first item equal to ch (failed reads never satisfy the predicate
\* and are passed over), or 0 when the iterator is exhausted.
FindFrom(s, i, ch) ==
    IF i > Len(s) THEN 0
    ELSE IF s[i] = ch THEN i
    ELSE FindFrom(s, i + 1, ch)

RECURSIVE SkipOnlySpaces(_, _)
\* Variant of SkipWhileNotDigit that passes over blanks only
SkipOnlySpaces(s, i) ==
    IF i > Len(s) THEN i
    ELSE IF s[i] = " " THEN SkipOnlySpaces(s, i + 1)
    ELSE i

RECURSIVE SkipWhileNotDigit(_, _)
\* skip_while(|c| c.is_ok_and(is_not_digit)), build.rs:220-221: the index of
\* the first item from i that is a digit or a failed read (Len(s)+1 if none).
SkipWhileNotDigit(s, i) ==
    IF i > Len(s) THEN i
    ELSE IF s[i] # ERR /\ ~is_ascii_digit(s[i]) THEN SkipWhileNotDigit(s, i + 1)
    ELSE i

RECURSIVE MapWhileDigit(_, _)
\* map_while(|c| c.ok().filter(|c| c.is_ascii_digit())).collect(),
\* build.rs:222-224: the digits from i up to the first item that is not one.
MapWhileDigit(s, i) ==
    IF i > Len(s) THEN <<>>
    ELSE IF s[i] # ERR /\ is_ascii_digit(s[i]) THEN <<s[i]>> \o MapWhileDigit(s, i + 1)
    ELSE <<>>

RECURSIVE StripZeros(_)
StripZeros(d) ==
    IF Len(d) > 1 /\ d[1] = "0" THEN StripZeros(Tail(d)) ELSE d

RECURSIVE LexLe(_, _)
\* a <= b for two digit strings of the same length
LexLe(a, b) ==
    IF a = <<>> THEN TRUE
    ELSE IF DigitVal(a[1]) < DigitVal(b[1]) THEN TRUE
    ELSE IF DigitVal(a[1]) > DigitVal(b[1]) THEN FALSE
    ELSE LexLe(Tail(a), Tail(b))

FitsU32(d) ==
    LET w == StripZeros(d)
    IN  Len(w) < Len(U32MaxDigits) \/ (Len(w) = Len(U32MaxDigits) /\ LexLe(w, U32MaxDigits))

RECURSIVE DecimalValue(_)
DecimalValue(d) ==
    IF d = <<>> THEN 0
    ELSE DecimalValue(SubSeq(d, 1, Len(d) - 1)) * 10 + DigitVal(d[Len(d)])

\* Variant of ParseU32 that keeps the nine leading digits of a long number
ParseU32Truncating(d) ==
    IF d = <<>> THEN None
    ELSE Some(DecimalValue(SubSeq(d, 1, IF Len(d) > 9 THEN 9 ELSE Len(d))))

\* String::from_utf8(v) is Ok for ASCII digits; v.parse::<u32>().ok(),
\* build.rs:225-228: None for the empty string and for a number above u32::MAX.
ParseU32(d) ==
    IF d = <<>> THEN None
    ELSE IF FitsU32(d) THEN Some(DecimalValue(d))
    ELSE None

\* build.rs:219-230, entered with the iterator at position i, right after the marker
AfterMarker(s, i) ==
    LET e == FindFrom(s, i, "=")
    IN  IF e = 0 THEN None
        ELSE ParseU32(MapWhileDigit(s, SkipWhileNotDigit(s, e + 1)))

RECURSIVE ScanMarker(_, _), MatchTail(_, _, _)
\* The loop 'version, build.rs:206-217.  ScanMarker(s, i): the position right
\* after a fully matched marker, or 0 when the function returns None before.
ScanMarker(s, i) ==
    LET f == FindFrom(s, i, "S")
    IN  IF f = 0 THEN 0 ELSE MatchTail(s, f + 1, 1)

\* The for loop, build.rs:208-217: k is the index of c0 in MarkerTail.  A byte
\* that differs from c0 has been taken from the iterator when the outer loop
\* continues.
MatchTail(s, i, k) ==
    IF k > Len(MarkerTail) THEN i
    ELSE IF i > Len(s) THEN 0
    ELSE IF s[i] = ERR THEN 0
    ELSE IF s[i] # MarkerTail[k] THEN ScanMarker(s, i + 1)
    ELSE MatchTail(s, i + 1, k + 1)

get_sundials_version_major(open_ok, s) ==
    IF ~open_ok THEN Panicked
    ELSE LET m == ScanMarker(s, 1)
         IN  IF m = 0 THEN Ret(None) ELSE Ret(AfterMarker(s, m))

(* ------------------------------------------------------------------ *)
(* ParseSignedConstants::int_macro, build.rs:15-23                     *)
(* ------------------------------------------------------------------ *)

\* Variant of TakeWhileNotUnderscore that keeps the whole name
WholeName(name) == name

RECURSIVE TakeWhileNotUnderscore(_)
\* name.chars().take_while(|c| *c != '_').collect(), build.rs:17
TakeWhileNotUnderscore(name) ==
    IF name = <<>> \/ name[1] = "_" THEN <<>>
    ELSE <<name[1]>> \o TakeWhileNotUnderscore(Tail(name))

\* "CV" | "IDA" | "KIN" | "SUN", build.rs:19
SignedPrefixes == {<<"C","V">>, <<"I","D","A">>, <<"K","I","N">>, <<"S","U","N">>}

\* Some(IntKind::Int)
SomeInt == [some |-> TRUE, kind |-> "Int"]

NoKind == [some |-> FALSE, kind |-> ""]

\* build.rs:16-22
int_macro(name, value) ==
    LET prefix == TakeWhileNotUnderscore(name)
    IN  IF prefix \in SignedPrefixes THEN SomeInt ELSE NoKind

(* ------------------------------------------------------------------ *)
(* State                                                               *)
(* ------------------------------------------------------------------ *)

VARIABLES
    pc,                       \* position of main
    features,                 \* the enabled cargo features (fixed for a run)
    target_family,            \* "unix", "windows" or "wasm"
    klu,                      \* Library of the sparse solver, build.rs:238
    sundials,                 \* Library of SUNDIALS, build.rs:239
    library_type,             \* build.rs:240
    build_vendor,             \* build.rs:263
    sundials_version_major,   \* build.rs:264
    bindings,                 \* result of the last generate_bindings
    bindings_rs,              \* the file $OUT_DIR/bindings.rs
    cmake_config,             \* the defines given to the last cmake build
    out,                      \* the cargo: lines printed so far
    calls,                    \* the calls made so far, in order
    panic,                    \* message of the panic that ended the run, or ""
    sn_pc,      \* sniffer run on its own: "ready" or "done"
    sn_open,    \* whether File::open succeeds
    sn_head,    \* the stream up to the `=` of the declaration
    sn_gap,     \* the bytes between that `=` and the digits
    sn_tail,    \* the digits and what follows
    sn_res,     \* result on sn_head \o sn_gap \o sn_tail
    sn_ref,     \* result on sn_head \o sn_tail
    kl_pc,      \* klu_inc_lib run on its own: "ready" or "returned"
    kl_env,     \* the environment it runs in
    kl_io,      \* the probes, environment reads and filesystem checks it made
    ar_pc,      \* generate_bindings run on its own: "ready" or "done"
    ar_dirs,    \* the list of optional include directories it is given
    ar_args,    \* the arguments the translator receives
    im_pc,      \* int_macro run on its own: "ready" or "done"
    im_name,    \* the macro's name
    im_value,   \* the macro's value
    im_res      \* the kind returned

mainvars ==
    <<pc, features, target_family, klu, sundials, library_type, build_vendor,
      sundials_version_major, bindings, bindings_rs, cmake_config, out, calls, panic>>

snvars == <<sn_pc, sn_open, sn_head, sn_gap, sn_tail, sn_res, sn_ref>>

klvars == <<kl_pc, kl_env, kl_io>>

arvars == <<ar_pc, ar_dirs, ar_args>>

imvars == <<im_pc, im_name, im_value, im_res>>

auxvars == <<snvars, klvars, arvars, imvars>>

vars == <<mainvars, auxvars>>

\* One entry of the log of calls: the function, whether it succeeded (for the
\* sniffer: returned Some) and the number it returned (-1 for a panic inside).
Call(f, ok, v) == [f |-> f, ok |-> ok, v |-> v]

\* Number of calls of f so far
Count(f) == Cardinality({ i \in 1..Len(calls) : calls[i].f = f })

(* ------------------------------------------------------------------ *)
(* Features, build.rs cfg!(feature = ..)                               *)
(* ------------------------------------------------------------------ *)

\* The optional sub-libraries, in the order of link!, build.rs:319-320
OptionalLibs ==
    <<"arkode", "cvode", "cvodes", "ida", "idas", "kinsol", "nvecopenmp", "nvecpthreads">>

OptionalSet == { OptionalLibs[i] : i \in 1..Len(OptionalLibs) }

OtherFeatures == {"klu", "static_libraries", "build_libraries"}

\* The sets of optional modules a run is built with: none, each one alone, all
ModuleSets == {{}, OptionalSet} \cup { {f} : f \in OptionalSet }

FeatureSets == { m \cup o : m \in ModuleSets, o \in SUBSET OtherFeatures }

TargetFamilies == {"unix", "windows", "wasm"}

\* cfg!(feature = s)
feature(s) == s \in features

\* macro feature!, build.rs:120-128
OnOff(s) == IF feature(s) THEN "ON" ELSE "OFF"

(* ------------------------------------------------------------------ *)
(* klu_inc_lib, build.rs:76-116                                        *)
(* ------------------------------------------------------------------ *)

StdInc == "/usr/include/suitesparse"

StdLib == "/usr/lib/x86_64-linux-gnu"

\* Outcomes of pkg_config::Config::new().probe("KLU")
KluProbes ==
    {[ok |-> FALSE, include_paths |-> <<>>, link_paths |-> <<>>]} \cup
    { [ok |-> TRUE, include_paths |-> i, link_paths |-> l] :
        i \in {<<>>, <<"/pkg/klu/include">>}, l \in {<<>>, <<"/pkg/klu/lib">>} }

KluEnvInc == {NoDir, SomeDir("$KLU_INCLUDE_DIR")}

KluEnvLib == {NoDir, SomeDir("$KLU_LIBRARY_DIR")}

\* The environments klu_inc_lib may run in: the probe's outcome, the two
\* override variables, and whether the two standard directories exist
KluEnvironments ==
    [probe : KluProbes, env_inc : KluEnvInc, env_lib : KluEnvLib,
     std_inc : BOOLEAN, std_lib : BOOLEAN]

\* Those a run of main is started in: the probe fails or reports both paths,
\* and the standard directories exist together or not at all
MainKluEnvironments ==
    { e \in KluEnvironments :
        /\ (e.probe.include_paths = <<>>) <=> (e.probe.link_paths = <<>>)
        /\ e.probe.ok <=> e.probe.include_paths # <<>>
        /\ e.std_inc = e.std_lib
        /\ e.std_inc => ~e.probe.ok }

\* Variant of klu_inc_lib_off that still prints the warning
klu_inc_lib_off_warns == [inc |-> NoDir, lib |-> NoDir, warn |-> TRUE]

\* Variant of klu_inc_lib_on where the probe's paths win over the overrides
klu_inc_lib_probe_first(probe, env_inc, env_lib, std_inc_exists, std_lib_exists) ==
    LET inc1 == IF probe.ok /\ probe.include_paths # <<>>
                THEN SomeDir(probe.include_paths[1]) ELSE env_inc
        lib1 == IF probe.ok /\ probe.link_paths # <<>>
                THEN SomeDir(probe.link_paths[1]) ELSE env_lib
        inc3 == IF ~inc1.some /\ std_inc_exists THEN SomeDir(StdInc) ELSE inc1
        lib3 == IF ~lib1.some /\ std_lib_exists THEN SomeDir(StdLib) ELSE lib1
    IN  [inc |-> inc3, lib |-> lib3, warn |-> ~inc3.some]

\* Variant of klu_inc_lib_on that warns when either directory is missing
klu_inc_lib_warns_any(probe, env_inc, env_lib, std_inc_exists, std_lib_exists) ==
    LET inc1 == IF probe.ok /\ probe.include_paths # <<>>
                THEN SomeDir(probe.include_paths[1]) ELSE NoDir
        lib1 == IF probe.ok /\ probe.link_paths # <<>>
                THEN SomeDir(probe.link_paths[1]) ELSE NoDir
        inc2 == IF env_inc.some THEN env_inc ELSE inc1
        lib2 == IF env_lib.some THEN env_lib ELSE lib1
        inc3 == IF ~inc2.some /\ std_inc_exists THEN SomeDir(StdInc) ELSE inc2
        lib3 == IF ~lib2.some /\ std_lib_exists THEN SomeDir(StdLib) ELSE lib2
    IN  [inc |-> inc3, lib |-> lib3, warn |-> ~inc3.some \/ ~lib3.some]

\* build.rs:76-77, feature klu disabled
klu_inc_lib_off == [inc |-> NoDir, lib |-> NoDir, warn |-> FALSE]

\* build.rs:79-116, feature klu enabled
klu_inc_lib_on(probe, env_inc, env_lib, std_inc_exists, std_lib_exists) ==
    LET inc1 == IF probe.ok /\ probe.include_paths # <<>>
                THEN SomeDir(probe.include_paths[1]) ELSE NoDir
        lib1 == IF probe.ok /\ probe.link_paths # <<>>
                THEN SomeDir(probe.link_paths[1]) ELSE NoDir
        inc2 == IF env_inc.some THEN env_inc ELSE inc1
        lib2 == IF env_lib.some THEN env_lib ELSE lib1
        inc3 == IF ~inc2.some /\ std_inc_exists THEN SomeDir(StdInc) ELSE inc2
        lib3 == IF ~lib2.some /\ std_lib_exists THEN SomeDir(StdLib) ELSE lib2
    IN  [inc |-> inc3, lib |-> lib3, warn |-> ~inc3.some]

\* What klu_inc_lib asks of its environment when the feature is disabled
klu_inc_lib_off_io == <<>>

\* What it asks when the feature is enabled, in order: the probe (line 86),
\* the two variables (lines 95, 98), and Path::exists of a standard directory
\* only when the `is_none() &&` before it holds (lines 104, 108)
klu_inc_lib_on_io(probe, env_inc, env_lib) ==
    LET inc2 == env_inc.some \/ (probe.ok /\ probe.include_paths # <<>>)
        lib2 == env_lib.some \/ (probe.ok /\ probe.link_paths # <<>>)
    IN  <<"pkg_config KLU", "env KLU_INCLUDE_DIR", "env KLU_LIBRARY_DIR">>
        \o (IF inc2 THEN <<>> ELSE <<"exists /usr/include/suitesparse">>)
        \o (IF lib2 THEN <<>> ELSE <<"exists /usr/lib/x86_64-linux-gnu">>)

(* ------------------------------------------------------------------ *)
(* build_vendor_sundials, build.rs:119-166                             *)
(* ------------------------------------------------------------------ *)

\* build.rs:130-135
VendorLibraryType ==
    IF OnOff("static_libraries") = "ON" THEN "static" ELSE "dylib"

\* Variant of SharedLibraries that does not follow the static flag
SharedAlwaysOn == "ON"

SharedLibraries ==
    IF OnOff("static_libraries") = "ON" THEN "OFF" ELSE "ON"

\* The defines of the cmake configuration, build.rs:137-159
VendorConfig(k) ==
    << <<"CMAKE_INSTALL_LIBDIR", "lib">>,
       <<"BUILD_STATIC_LIBS", OnOff("static_libraries")>>,
       <<"BUILD_SHARED_LIBS", SharedLibraries>>,
       <<"BUILD_TESTING", "OFF">>,
       <<"EXAMPLES_INSTALL", "OFF">>,
       <<"EXAMPLES_ENABLE_C", "OFF">>,
       <<"BUILD_ARKODE", OnOff("arkode")>>,
       <<"BUILD_CVODE", OnOff("cvode")>>,
       <<"BUILD_CVODES", OnOff("cvodes")>>,
       <<"BUILD_IDA", OnOff("ida")>>,
       <<"BUILD_IDAS", OnOff("idas")>>,
       <<"BUILD_KINSOL", OnOff("kinsol")>>,
       <<"ENABLE_KLU", OnOff("klu")>>,
       <<"OPENMP_ENABLE", OnOff("nvecopenmp")>>,
       <<"PTHREAD_ENABLE", OnOff("nvecpthreads")>> >>
    \o (IF k.inc.some THEN << <<"KLU_INCLUDE_DIR", k.inc.v>> >> ELSE <<>>)
    \o (IF k.lib.some THEN << <<"KLU_LIBRARY_DIR", k.lib.v>> >> ELSE <<>>)

\* build.rs:161-165: the install tree of the cmake build
VendorLibrary ==
    [inc |-> SomeDir("$OUT_DIR/include"), lib |-> SomeDir("$OUT_DIR/lib")]

\* Variant of build_vendor_sundials whose caller keeps the old `sundials`
build_vendor_keeps_location(cmake_ok, next) ==
    /\ cmake_config' = VendorConfig(klu)
    /\ calls' = Append(calls, Call("build_vendor_sundials", cmake_ok, 0))
    /\ sundials' = sundials
    /\ IF cmake_ok
       THEN /\ library_type' = VendorLibraryType
            /\ pc' = next
            /\ panic' = panic
       ELSE /\ pc' = "aborted"
            /\ panic' = "cmake build failed"
            /\ UNCHANGED library_type

\* A call `(sundials, library_type) = build_vendor_sundials(&klu)` of main,
\* which then goes on at `next`.  config.build() returns a path, not a
\* Result: when the native build fails (cmake_ok false) the call panics.
build_vendor_sundials(cmake_ok, next) ==
    /\ cmake_config' = VendorConfig(klu)
    /\ calls' = Append(calls, Call("build_vendor_sundials", cmake_ok, 0))
    /\ IF cmake_ok
       THEN /\ sundials' = VendorLibrary
            /\ library_type' = VendorLibraryType
            /\ pc' = next
            /\ panic' = panic
       ELSE /\ pc' = "aborted"
            /\ panic' = "cmake build failed"
            /\ UNCHANGED <<sundials, library_type>>

(* ------------------------------------------------------------------ *)
(* generate_bindings, build.rs:168-201                                 *)
(* ------------------------------------------------------------------ *)

RECURSIVE IncludeArgsReversed(_)
\* Variant of IncludeArgs that gives the directories in reverse order
IncludeArgsReversed(inc_dirs) ==
    IF inc_dirs = <<>> THEN <<>>
    ELSE IncludeArgsReversed(Tail(inc_dirs))
         \o (IF inc_dirs[1].some THEN << <<"-I", inc_dirs[1].v>> >> ELSE <<>>)

RECURSIVE IncludeArgs(_)
\* build.rs:181-185: one -I<dir> per present directory, in order
IncludeArgs(inc_dirs) ==
    IF inc_dirs = <<>> THEN <<>>
    ELSE (IF inc_dirs[1].some THEN << <<"-I", inc_dirs[1].v>> >> ELSE <<>>)
         \o IncludeArgs(Tail(inc_dirs))

\* macro define!, build.rs:170-178
Define(f, name) == <<"-DUSE_", name, IF feature(f) THEN 1 ELSE 0>>

\* build.rs:187-197
DefineArgs ==
    << Define("arkode", "ARKODE"), Define("cvode", "CVODE"), Define("cvodes", "CVODES"),
       Define("ida", "IDA"), Define("idas", "IDAS"), Define("kinsol", "KINSOL"),
       Define("klu", "KLU"), Define("nvecopenmp", "OPENMP"),
       Define("nvecpthreads", "PTHREADS") >>

ClangArgs(inc_dirs) == IncludeArgs(inc_dirs) \o DefineArgs

RECURSIVE ToDigits(_)
\* format!("{}", n) of an unsigned number
ToDigits(n) ==
    IF n < 10 THEN <<Digits[n + 1]>>
    ELSE ToDigits(n \div 10) \o <<Digits[(n % 10) + 1]>>

PubConst == <<"p","u","b"," ","c","o","n","s","t"," ">>

TypeAnn == <<" ",":"," ","u","3","2"," ">>

Marker == <<"S">> \o MarkerTail

MinorMarker == SubSeq(Marker, 1, 17) \o <<"M","I","N","O","R">>

Versions == (MinAccepted - 1)..MaxVersion

\* What the translator writes for headers of major version v
Unit(v) ==
    PubConst \o Marker \o TypeAnn \o <<"=", " ">> \o ToDigits(v) \o <<" ", ";">>
    \o PubConst \o MinorMarker \o TypeAnn \o <<"=", " ", "1", " ", ";">>

\* What it writes for headers that do not define the major version
UnitNoVersion ==
    PubConst \o MinorMarker \o TypeAnn \o <<"=", " ", "1", " ", ";">>

\* u32::MAX + 1
TooBigDigits == <<"4","2","9","4","9","6","7","2","9","6">>

TypeAnn64 == <<" ",":"," ","u","6","4"," ">>

\* What it writes for headers whose major version is 2^32: the constant does
\* not fit u32 and is given the type u64
UnitTooBig ==
    PubConst \o Marker \o TypeAnn64 \o <<"=", " ">> \o TooBigDigits \o <<" ", ";">>
    \o PubConst \o MinorMarker \o TypeAnn \o <<"=", " ", "1", " ", ";">>

\* Name of the unit UnitTooBig
TooBig == -1

\* The units the translator may write, named by the version they declare
\* (0: the headers do not define the major version; TooBig: they define 2^32)
Units == Versions \cup {0, TooBig}

UnitBytes(u) ==
    IF u = 0 THEN UnitNoVersion
    ELSE IF u = TooBig THEN UnitTooBig
    ELSE Unit(u)

NoBindings == [ok |-> FALSE, args |-> <<>>, unit |-> 0]

\* Outcomes of one run of the translator with these include directories
generate_bindings(inc_dirs) ==
    {NoBindings} \cup { [ok |-> TRUE, args |-> ClangArgs(inc_dirs), unit |-> u] : u \in Units }

\* The file bindings.rs: the unit written to it, the arguments the unit was
\* generated with, and the generation (first or second) it comes from
NoFile == [exists |-> FALSE, args |-> <<>>, unit |-> 0, gen |-> 0]

\* The bytes read from the file
Contents(file) == IF file.exists THEN UnitBytes(file.unit) ELSE <<>>


(* ------------------------------------------------------------------ *)
(* cargo directives                                                    *)
(* ------------------------------------------------------------------ *)

Warning(what) == [d |-> "warning", kind |-> "", name |-> what, v |-> 0]

RustcCfg(v) == [d |-> "rustc-cfg", kind |-> "", name |-> "sundials_version_major", v |-> v]

LinkSearch(dir) == [d |-> "rustc-link-search", kind |-> "native", name |-> dir, v |-> 0]

\* cargo:rustc-link-lib={kind}=sundials_{name}
LinkLib(kind, name) == [d |-> "rustc-link-lib", kind |-> kind, name |-> name, v |-> 0]

\* build.rs:298-312
FixedLibs ==
    <<"nvecserial", "sunlinsolband", "sunlinsoldense", "sunlinsolpcg", "sunlinsolspbcgs",
      "sunlinsolspfgmr", "sunlinsolspgmr", "sunlinsolsptfqmr", "sunmatrixband",
      "sunmatrixdense", "sunmatrixsparse", "sunnonlinsolfixedpoint", "sunnonlinsolnewton">>

\* build.rs:298-320
lib_names(version) ==
    FixedLibs
    \o (IF version >= CoreSince THEN <<"core">> ELSE <<>>)
    \o SelectSeq(OptionalLibs, feature)

(* ------------------------------------------------------------------ *)
(* main, build.rs:235-330                                              *)
(* ------------------------------------------------------------------ *)

SniffIdle ==
    /\ sn_pc = "off"
    /\ sn_open = TRUE
    /\ sn_head = <<>>
    /\ sn_gap = <<>>
    /\ sn_tail = <<>>
    /\ sn_res = Ret(None)
    /\ sn_ref = Ret(None)

\* klu_inc_lib is not run on its own
KluIdle ==
    /\ kl_pc = "off"
    /\ kl_env = [probe |-> [ok |-> FALSE, include_paths |-> <<>>, link_paths |-> <<>>],
                 env_inc |-> NoDir, env_lib |-> NoDir,
                 std_inc |-> FALSE, std_lib |-> FALSE]
    /\ kl_io = <<>>

\* generate_bindings is not run on its own
ArgsIdle ==
    /\ ar_pc = "off"
    /\ ar_dirs = <<>>
    /\ ar_args = <<>>

\* int_macro is not run on its own
MacroIdle ==
    /\ im_pc = "off"
    /\ im_name = <<>>
    /\ im_value = 0
    /\ im_res = NoKind

MainStart(p) ==
    /\ pc = p
    /\ klu = [inc |-> NoDir, lib |-> NoDir]
    /\ sundials = [inc |-> NoDir, lib |-> NoDir]
    /\ library_type = "dylib"
    /\ build_vendor = TRUE
    /\ sundials_version_major = 0
    /\ bindings = NoBindings
    /\ bindings_rs = NoFile
    /\ cmake_config = <<>>
    /\ out = <<>>
    /\ calls = <<>>
    /\ panic = ""

Init ==
    /\ features \in FeatureSets
    /\ target_family \in TargetFamilies
    /\ MainStart("klu")
    /\ SniffIdle
    /\ KluIdle
    /\ ArgsIdle
    /\ MacroIdle

Abort(msg) ==
    /\ pc' = "aborted"
    /\ panic' = msg

\* build.rs:238
KluIncLib ==
    /\ pc = "klu"
    /\ \E r \in IF feature("klu")
                THEN { klu_inc_lib_on(e.probe, e.env_inc, e.env_lib, e.std_inc, e.std_lib) :
                         e \in MainKluEnvironments }
                ELSE {klu_inc_lib_off} :
          /\ klu' = [inc |-> r.inc, lib |-> r.lib]
          /\ out' = IF r.warn THEN Append(out, Warning("KLU_INCLUDE_DIR")) ELSE out
    /\ pc' = "locate"
    /\ calls' = Append(calls, Call("klu_inc_lib", TRUE, 0))
    /\ UNCHANGED <<features, target_family, sundials, library_type, build_vendor,
                   sundials_version_major, bindings, bindings_rs, cmake_config, panic>>
    /\ UNCHANGED auxvars

\* build.rs:241-242
LocateVendor ==
    /\ pc = "locate"
    /\ feature("build_libraries") \/ target_family = "wasm"
    /\ \E cmake_ok \in BOOLEAN : build_vendor_sundials(cmake_ok, "pkgmgr")
    /\ UNCHANGED <<features, target_family, klu, build_vendor, sundials_version_major,
                   bindings, bindings_rs, out>>
    /\ UNCHANGED auxvars

\* The two reads of the environment, build.rs:244-245: each returns, with 1
\* when the variable is set and 0 when it is not
EnvReads(i, l) ==
    <<Call("env SUNDIALS_INCLUDE_DIR", TRUE, IF i.some THEN 1 ELSE 0),
      Call("env SUNDIALS_LIBRARY_DIR", TRUE, IF l.some THEN 1 ELSE 0)>>

\* Variant of LocateEnv that announces the library directory at once
LocateEnvAnnounces ==
    /\ pc = "locate"
    /\ ~(feature("build_libraries") \/ target_family = "wasm")
    /\ \E i \in {NoDir, SomeDir("$SUNDIALS_INCLUDE_DIR")},
          l \in {NoDir, SomeDir("$SUNDIALS_LIBRARY_DIR")} :
          /\ sundials' = [inc |-> i, lib |-> l]
          /\ calls' = calls \o EnvReads(i, l)
          /\ out' = IF l.some THEN Append(out, LinkSearch(l.v)) ELSE out
    /\ pc' = "pkgmgr"
    /\ UNCHANGED <<features, target_family, klu, library_type, build_vendor,
                   sundials_version_major, bindings, bindings_rs, cmake_config, panic>>
    /\ UNCHANGED auxvars

\* build.rs:243-246
LocateEnv ==
    /\ pc = "locate"
    /\ ~(feature("build_libraries") \/ target_family = "wasm")
    /\ \E i \in {NoDir, SomeDir("$SUNDIALS_INCLUDE_DIR")},
          l \in {NoDir, SomeDir("$SUNDIALS_LIBRARY_DIR")} :
          /\ sundials' = [inc |-> i, lib |-> l]
          /\ calls' = calls \o EnvReads(i, l)
    /\ pc' = "pkgmgr"
    /\ UNCHANGED <<features, target_family, klu, library_type, build_vendor,
                   sundials_version_major, bindings, bindings_rs, cmake_config, out,
                   panic>>
    /\ UNCHANGED auxvars

\* build.rs:248, 249
AsksPackageManager ==
    /\ ~sundials.lib.some
    /\ ~sundials.inc.some
    /\ target_family = "windows"

\* build.rs:248-257, nothing to do
PkgMgrSkip ==
    /\ pc = "pkgmgr"
    /\ ~AsksPackageManager
    /\ pc' = "gen1"
    /\ UNCHANGED <<features, target_family, klu, sundials, library_type, build_vendor,
                   sundials_version_major, bindings, bindings_rs, cmake_config, out,
                   calls, panic>>
    /\ UNCHANGED auxvars

\* build.rs:250-253, vcpkg finds the package
PkgMgrFound ==
    /\ pc = "pkgmgr"
    /\ AsksPackageManager
    /\ pc' = "gen1"
    /\ calls' = Append(calls, Call("vcpkg", TRUE, 0))
    /\ UNCHANGED <<features, target_family, klu, sundials, library_type, build_vendor,
                   sundials_version_major, bindings, bindings_rs, cmake_config, out, panic>>
    /\ UNCHANGED auxvars

\* build.rs:250-255, vcpkg fails
PkgMgrFallback ==
    /\ pc = "pkgmgr"
    /\ AsksPackageManager
    /\ \E cmake_ok \in BOOLEAN :
          /\ cmake_config' = VendorConfig(klu)
          /\ calls' = calls \o <<Call("vcpkg", FALSE, 0),
                                  Call("build_vendor_sundials", cmake_ok, 0)>>
          /\ IF cmake_ok
             THEN /\ sundials' = VendorLibrary
                  /\ library_type' = VendorLibraryType
                  /\ pc' = "gen1"
                  /\ panic' = panic
             ELSE /\ Abort("cmake build failed")
                  /\ UNCHANGED <<sundials, library_type>>
    /\ UNCHANGED <<features, target_family, klu, build_vendor, sundials_version_major,
                   bindings, bindings_rs, out>>
    /\ UNCHANGED auxvars

\* Variant of Generate1 that treats a failed generation as fatal
Generate1Expect ==
    /\ pc = "gen1"
    /\ \E b \in generate_bindings(<<sundials.inc, klu.inc>>) :
          /\ bindings' = b
          /\ IF b.ok
             THEN pc' = "write1" /\ panic' = panic
             ELSE Abort("Unable to generate bindings!")
          /\ calls' = Append(calls, Call("generate_bindings", b.ok, 0))
    /\ UNCHANGED <<features, target_family, klu, sundials, library_type, build_vendor,
                   sundials_version_major, bindings_rs, cmake_config, out>>
    /\ UNCHANGED auxvars

\* build.rs:265
Generate1 ==
    /\ pc = "gen1"
    /\ \E b \in generate_bindings(<<sundials.inc, klu.inc>>) :
          /\ bindings' = b
          /\ pc' = IF b.ok THEN "write1" ELSE "forced"
          /\ calls' = Append(calls, Call("generate_bindings", b.ok, 0))
    /\ UNCHANGED <<features, target_family, klu, sundials, library_type, build_vendor,
                   sundials_version_major, bindings_rs, cmake_config, out, panic>>
    /\ UNCHANGED auxvars

\* Variant of write_to_file that does not replace a file that exists
write_to_file_keeps(io_ok, next) ==
    /\ calls' = Append(calls, Call("write_to_file", io_ok, 0))
    /\ IF io_ok
       THEN /\ bindings_rs' = IF bindings_rs.exists THEN bindings_rs
                               ELSE [exists |-> TRUE, args |-> bindings.args,
                                     unit |-> bindings.unit,
                                     gen |-> Count("generate_bindings")]
            /\ pc' = next
            /\ panic' = panic
       ELSE /\ Abort("Couldn't write file bindings.rs!")
            /\ UNCHANGED bindings_rs

\* bindings.write_to_file(&bindings_rs).expect(..), build.rs:266-267 and 281-283
write_to_file(io_ok, next) ==
    /\ calls' = Append(calls, Call("write_to_file", io_ok, 0))
    /\ IF io_ok
       THEN /\ bindings_rs' = [exists |-> TRUE, args |-> bindings.args,
                               unit |-> bindings.unit, gen |-> Count("generate_bindings")]
            /\ pc' = next
            /\ panic' = panic
       ELSE /\ Abort("Couldn't write file bindings.rs!")
            /\ UNCHANGED bindings_rs

SniffCall(r) ==
    Call("get_sundials_version_major", r.some, IF r.panic THEN -1 ELSE r.v)

\* Variant of Acceptable without the comparison with 6
AcceptableAny(r) == r.some

\* Variant of Acceptable with `>` for `>=`
AcceptableStrict(r) == r.some /\ r.v > MinAccepted

\* build.rs:268-269: `if let Some(v) = .. { if v >= 6 {`
Acceptable(r) == r.some /\ r.v >= MinAccepted

\* build.rs:266-267
Write1 ==
    /\ pc = "write1"
    /\ \E io_ok \in BOOLEAN : write_to_file(io_ok, "sniff1")
    /\ UNCHANGED <<features, target_family, klu, sundials, library_type, build_vendor,
                   sundials_version_major, bindings, cmake_config, out>>
    /\ UNCHANGED auxvars

\* build.rs:268-276
Sniff1 ==
    /\ pc = "sniff1"
    /\ \E open_ok \in BOOLEAN :
          LET r == get_sundials_version_major(open_ok, Contents(bindings_rs))
          IN  /\ calls' = Append(calls, SniffCall(r))
              /\ IF r.panic
                 THEN /\ Abort("Couldn't read file bindings.rs!")
                      /\ UNCHANGED <<build_vendor, sundials_version_major, out>>
                 ELSE IF Acceptable(r)
                 THEN /\ build_vendor' = FALSE
                      /\ sundials_version_major' = r.v
                      /\ pc' = "emit"
                      /\ UNCHANGED <<out, panic>>
                 ELSE /\ out' = IF r.some
                                THEN Append(out, Warning("System sundials version < 6"))
                                ELSE out
                      /\ pc' = "forced"
                      /\ UNCHANGED <<build_vendor, sundials_version_major, panic>>
    /\ UNCHANGED <<features, target_family, klu, sundials, library_type, bindings,
                   bindings_rs, cmake_config>>
    /\ UNCHANGED auxvars

\* build.rs:278-279
ForcedVendor ==
    /\ pc = "forced"
    /\ build_vendor
    /\ \E cmake_ok \in BOOLEAN : build_vendor_sundials(cmake_ok, "gen2")
    /\ UNCHANGED <<features, target_family, klu, build_vendor, sundials_version_major,
                   bindings, bindings_rs, out>>
    /\ UNCHANGED auxvars

\* build.rs:280, 286-288
Generate2 ==
    /\ pc = "gen2"
    /\ \E b \in generate_bindings(<<sundials.inc, klu.inc>>) :
          /\ bindings' = b
          /\ IF b.ok
             THEN pc' = "write2" /\ panic' = panic
             ELSE Abort("Unable to generate bindings of the vendor sundials!")
          /\ calls' = Append(calls, Call("generate_bindings", b.ok, 0))
    /\ UNCHANGED <<features, target_family, klu, sundials, library_type, build_vendor,
                   sundials_version_major, bindings_rs, cmake_config, out>>
    /\ UNCHANGED auxvars

\* build.rs:281-283
Write2 ==
    /\ pc = "write2"
    /\ \E io_ok \in BOOLEAN : write_to_file(io_ok, "sniff2")
    /\ UNCHANGED <<features, target_family, klu, sundials, library_type, build_vendor,
                   sundials_version_major, bindings, cmake_config, out>>
    /\ UNCHANGED auxvars

\* Variant of Sniff2 that does not store the version it sniffed
Sniff2KeepsVersion ==
    /\ pc = "sniff2"
    /\ \E open_ok \in BOOLEAN :
          LET r == get_sundials_version_major(open_ok, Contents(bindings_rs))
          IN  /\ calls' = Append(calls, SniffCall(r))
              /\ IF r.panic
                 THEN Abort("Couldn't read file bindings.rs!")
                 ELSE IF r.some
                 THEN pc' = "emit" /\ panic' = panic
                 ELSE Abort("Cannot determine vendor sundials version!")
    /\ UNCHANGED <<features, target_family, klu, sundials, library_type, build_vendor,
                   sundials_version_major, bindings, bindings_rs, cmake_config, out>>
    /\ UNCHANGED auxvars

\* build.rs:284-285
Sniff2 ==
    /\ pc = "sniff2"
    /\ \E open_ok \in BOOLEAN :
          LET r == get_sundials_version_major(open_ok, Contents(bindings_rs))
          IN  /\ calls' = Append(calls, SniffCall(r))
              /\ IF r.panic
                 THEN /\ Abort("Couldn't read file bindings.rs!")
                      /\ UNCHANGED sundials_version_major
                 ELSE IF r.some
                 THEN /\ sundials_version_major' = r.v
                      /\ pc' = "emit"
                      /\ panic' = panic
                 ELSE /\ Abort("Cannot determine vendor sundials version!")
                      /\ UNCHANGED sundials_version_major
    /\ UNCHANGED <<features, target_family, klu, sundials, library_type, build_vendor,
                   bindings, bindings_rs, cmake_config, out>>
    /\ UNCHANGED auxvars

\* build.rs:290-291
EmitVersion ==
    /\ pc = "emit"
    /\ out' = Append(out, RustcCfg(sundials_version_major))
    /\ pc' = "link_search"
    /\ UNCHANGED <<features, target_family, klu, sundials, library_type, build_vendor,
                   sundials_version_major, bindings, bindings_rs, cmake_config, calls, panic>>
    /\ UNCHANGED auxvars

\* build.rs:295-297
EmitLinkSearch ==
    /\ pc = "link_search"
    /\ out' = IF sundials.lib.some THEN Append(out, LinkSearch(sundials.lib.v)) ELSE out
    /\ pc' = "link_libs"
    /\ UNCHANGED <<features, target_family, klu, sundials, library_type, build_vendor,
                   sundials_version_major, bindings, bindings_rs, cmake_config, calls, panic>>
    /\ UNCHANGED auxvars

\* build.rs:298-327
EmitLinkLibs ==
    /\ pc = "link_libs"
    /\ LET names == lib_names(sundials_version_major)
       IN  out' = out \o [i \in 1..Len(names) |-> LinkLib(library_type, names[i])]
    /\ pc' = "done"
    /\ UNCHANGED <<features, target_family, klu, sundials, library_type, build_vendor,
                   sundials_version_major, bindings, bindings_rs, cmake_config, calls, panic>>
    /\ UNCHANGED auxvars

Next ==
    \/ KluIncLib
    \/ LocateVendor
    \/ LocateEnv
    \/ PkgMgrSkip
    \/ PkgMgrFound
    \/ PkgMgrFallback
    \/ Generate1
    \/ Write1
    \/ Sniff1
    \/ ForcedVendor
    \/ Generate2
    \/ Write2
    \/ Sniff2
    \/ EmitVersion
    \/ EmitLinkSearch
    \/ EmitLinkLibs

Spec == Init /\ [][Next]_vars

(* ------------------------------------------------------------------ *)
(* Properties of main (Spec)                                           *)
(* ------------------------------------------------------------------ *)

Directives == {"rustc-cfg", "rustc-link-search", "rustc-link-lib"}

EmitStates == {"emit", "link_search", "link_libs", "done"}

Emitted(d) == \E i \in 1..Len(out) : out[i].d = d

EmittedVersions == { out[i].v : i \in { j \in 1..Len(out) : out[j].d = "rustc-cfg" } }

LinkSearchDirs == { out[i].name : i \in { j \in 1..Len(out) : out[j].d = "rustc-link-search" } }

LinkLibNames == { out[i].name : i \in { j \in 1..Len(out) : out[j].d = "rustc-link-lib" } }

LinkLibKinds == { out[i].kind : i \in { j \in 1..Len(out) : out[j].d = "rustc-link-lib" } }

HasCall(f) == \E i \in 1..Len(calls) : calls[i].f = f

\* Index of the first generate_bindings call (0 before it)
FirstGenIdx ==
    IF HasCall("generate_bindings")
    THEN CHOOSE i \in 1..Len(calls) :
            /\ calls[i].f = "generate_bindings"
            /\ \A j \in 1..(i - 1) : calls[j].f # "generate_bindings"
    ELSE 0

FirstGenFailed == FirstGenIdx # 0 /\ ~calls[FirstGenIdx].ok

\* The first generation succeeded and the sniff of its file has returned
FirstSniffed ==
    /\ FirstGenIdx # 0
    /\ calls[FirstGenIdx].ok
    /\ Len(calls) >= FirstGenIdx + 2
    /\ calls[FirstGenIdx + 2].f = "get_sundials_version_major"
    /\ calls[FirstGenIdx + 2].v # -1

FirstSniff == calls[FirstGenIdx + 2]

\* Index of the vendor build that follows the first generation (0 if none)
ForcedIdx ==
    LET g == FirstGenIdx
        later == { i \in (g + 1)..Len(calls) : calls[i].f = "build_vendor_sundials" }
    IN  IF g = 0 \/ later = {} THEN 0
        ELSE CHOOSE i \in later : \A j \in later : i <= j

ForcedStarted == ForcedIdx # 0

LastCall == calls[Len(calls)]

\* The sniff of the vendor-built bindings has returned
VendorSniffed ==
    /\ ForcedStarted
    /\ LastCall.f = "get_sundials_version_major"
    /\ LastCall.v # -1

SniffedOld == FirstSniffed /\ FirstSniff.ok /\ FirstSniff.v < MinAccepted

\* C1 as stated: when the system bindings sniff to a version below 6, a vendor
\* build follows, the emitted version is the one sniffed from the vendor-built
\* bindings, it is at least 6, and a vendor version below 6 ends the build.
C1_VendorVersionChecked ==
    SniffedOld =>
        /\ (pc = "forced" \/ ForcedStarted)
        /\ (Emitted("rustc-cfg") =>
               VendorSniffed /\ EmittedVersions = {LastCall.v} /\ LastCall.v >= MinAccepted)
        /\ (VendorSniffed /\ LastCall.ok /\ LastCall.v < MinAccepted => pc = "aborted")

\* C1 amended: when the system bindings sniff to a version below 6, a vendor
\* build follows and the emitted version is the one sniffed from the
\* vendor-built bindings, whatever it is; the build is fatal at that sniff only
\* when no version is found.
C1_VendorVersionEmitted ==
    SniffedOld =>
        /\ (pc = "forced" \/ ForcedStarted)
        /\ (Emitted("rustc-cfg") =>
               /\ VendorSniffed /\ LastCall.ok
               /\ EmittedVersions = {LastCall.v}
               /\ bindings_rs.gen = 2
               /\ Ret(Some(LastCall.v)) = get_sundials_version_major(TRUE, Contents(bindings_rs)))
        /\ (VendorSniffed => (pc = "aborted" <=> ~LastCall.ok))

C1_Witness ==
    /\ pc = "done"
    /\ SniffedOld
    /\ ForcedStarted
    /\ EmittedVersions = {CoreSince}

FirstDecided == FirstGenFailed \/ FirstSniffed

ForcedCondition ==
    \/ FirstGenFailed
    \/ (FirstSniffed /\ ~FirstSniff.ok)
    \/ (FirstSniffed /\ FirstSniff.ok /\ FirstSniff.v < MinAccepted)

ForcedOrder ==
    <<"build_vendor_sundials", "generate_bindings", "write_to_file",
      "get_sundials_version_major">>

KluLibNames == {"klu", "sunlinsolklu"}

\* C3: the emitted rustc-link-lib names contain core iff the final version is
\* >= 7, each optional sub-library iff its feature is enabled (the klu one
\* included), and always the fixed names.
C3_LinkLibNames ==
    pc = "done" =>
        /\ ("core" \in LinkLibNames <=> sundials_version_major >= CoreSince)
        /\ \A f \in OptionalSet : (f \in LinkLibNames <=> feature(f))
        /\ ((KluLibNames \cap LinkLibNames # {}) <=> feature("klu"))
        /\ \A i \in 1..Len(FixedLibs) : FixedLibs[i] \in LinkLibNames

\* C7: on every path the kind of the emitted rustc-link-lib directives is
\* static iff the static_libraries feature is enabled, one kind per run.
C7_KindFollowsFeature ==
    pc = "done" =>
        LinkLibKinds = {IF feature("static_libraries") THEN "static" ELSE "dylib"}

FalseStarts ==
    { <<"S">>, <<"S","U">>, SubSeq(Marker, 1, 17) }

EarlierDecl == Marker \o <<"=","5",";">>

Pres ==
    {<<>>, <<"x">>, <<ERR>>, EarlierDecl} \cup FalseStarts

Pubs == {<<>>, PubConst}

Cores == {Marker, <<>>, MinorMarker}

Mids == {<<>>, TypeAnn, <<ERR>>}

Eqs == {<<>>, <<"=">>}

Heads ==
    { p \o b \o c \o m \o e : p \in Pres, b \in Pubs, c \in Cores, m \in Mids, e \in Eqs }

GapBytes == {" ", "x", "="}

Gaps == UNION { [1..n -> GapBytes] : n \in 0..MaxGap }

DigitRuns == {<<>>, <<"7">>, <<"6">>, <<"1","2">>, <<"0","7">>}

Posts == {<<>>, <<" ",";">>, <<ERR>>, <<" ","8">>}

Tails == { d \o p : d \in DigitRuns, p \in Posts }

sn_bytes == sn_head \o sn_gap \o sn_tail

SniffInit ==
    /\ features = {}
    /\ target_family = "unix"
    /\ MainStart("off")
    /\ sn_pc = "ready"
    /\ sn_open \in BOOLEAN
    /\ sn_head \in Heads
    /\ sn_gap \in Gaps
    /\ sn_tail \in Tails
    /\ (~sn_open => sn_head = <<>> /\ sn_gap = <<>> /\ sn_tail = <<>>)
    /\ sn_res = Ret(None)
    /\ sn_ref = Ret(None)
    /\ KluIdle
    /\ ArgsIdle
    /\ MacroIdle

\* One call of get_sundials_version_major on the stream, and one on the
\* stream without the inserted gap.
Sniff ==
    /\ sn_pc = "ready"
    /\ sn_pc' = "done"
    /\ sn_res' = get_sundials_version_major(sn_open, sn_bytes)
    /\ sn_ref' = get_sundials_version_major(sn_open, sn_head \o sn_tail)
    /\ UNCHANGED <<sn_open, sn_head, sn_gap, sn_tail>>
    /\ UNCHANGED mainvars
    /\ UNCHANGED <<klvars, arvars, imvars>>

SniffNext == Sniff

SniffSpec == SniffInit /\ [][SniffNext]_vars

(* ------------------------------------------------------------------ *)
(* Properties of the version sniffer (SniffSpec)                       *)
(* ------------------------------------------------------------------ *)

Contains(s, pat) ==
    \E i \in 1..(Len(s) - Len(pat) + 1) : SubSeq(s, i, i + Len(pat) - 1) = pat

\* `SUNDIALS_VERSION_MAJOR : u32 = 7 ;`
Decl7 == Marker \o TypeAnn \o <<"=", " ", "7", " ", ";">>

\* `pub const SUNDIALS_VERSION_MAJOR : u32 = 7 ;`
Text7 == PubConst \o Decl7

\* The stream holds the declaration of version 7, possibly with a partial
\* prefix of the marker ending right before the real marker.
HoldsText7(s) ==
    \/ Contains(s, Text7)
    \/ \E f \in FalseStarts : Contains(s, f \o Decl7)

\* C4: a stream that contains `pub const SUNDIALS_VERSION_MAJOR : u32 = 7 ;`
\* anywhere, also right after a false start S, SU or SUNDIALS_VERSION_, sniffs
\* to Some(7); a stream without the marker sniffs to None.
C4_SniffRoundTrip ==
    (sn_pc = "done" /\ sn_open) =>
        /\ (HoldsText7(sn_bytes) => sn_res = Ret(Some(7)))
        /\ (~Contains(sn_bytes, Marker) => sn_res = Ret(None))

\* The code matched the marker and sn_head ends with the next `=`.
HeadEndsAtEq ==
    LET m == ScanMarker(sn_head, 1)
    IN  m # 0 /\ FindFrom(sn_head, m, "=") = Len(sn_head)

\* A read fails while the scan is in one of its phases.
ErrSearchingS(s) == Len(s) >= 1 /\ s[1] = ERR

ErrMatching(s) == Len(s) >= 2 /\ s[1] = "S" /\ s[2] = ERR

ErrSearchingEq(s) ==
    LET m == ScanMarker(s, 1) IN m # 0 /\ m <= Len(s) /\ s[m] = ERR

ErrSkipping(s) ==
    LET m == ScanMarker(s, 1)
        e == IF m = 0 THEN 0 ELSE FindFrom(s, m, "=")
        d == IF e = 0 THEN 0 ELSE SkipWhileNotDigit(s, e + 1)
    IN  e # 0 /\ d <= Len(s) /\ s[d] = ERR

ErrReadingDigits(s) ==
    LET m == ScanMarker(s, 1)
        e == IF m = 0 THEN 0 ELSE FindFrom(s, m, "=")
        d == IF e = 0 THEN 0 ELSE SkipWhileNotDigit(s, e + 1)
        r == IF e = 0 THEN <<>> ELSE MapWhileDigit(s, d)
    IN  e # 0 /\ r # <<>> /\ d + Len(r) <= Len(s) /\ s[d + Len(r)] = ERR

ReadErrorOccurs(s) ==
    \/ ErrSearchingS(s)
    \/ ErrMatching(s)
    \/ ErrSearchingEq(s)
    \/ ErrSkipping(s)
    \/ ErrReadingDigits(s)

NoDigitAfterEq(s) ==
    LET m == ScanMarker(s, 1)
        e == IF m = 0 THEN 0 ELSE FindFrom(s, m, "=")
    IN  m # 0 /\ (e = 0 \/ \A j \in (e + 1)..Len(s) : ~is_ascii_digit(s[j]))

\* C5: the sniffer returns None, without aborting, when the marker is never
\* found, when no digit follows the next `=`, and on any I/O error, on opening
\* the file or on reading a byte in any phase of the scan.
C5_NoneOnFailure ==
    sn_pc = "done" =>
        ((\/ ~sn_open
          \/ ~Contains(sn_bytes, Marker)
          \/ NoDigitAfterEq(sn_bytes)
          \/ ReadErrorOccurs(sn_bytes)) => sn_res = Ret(None))

FirstDigitAt(t) ==
    IF \E i \in 1..Len(t) : is_ascii_digit(t[i])
    THEN CHOOSE i \in 1..Len(t) :
            is_ascii_digit(t[i]) /\ \A j \in 1..(i - 1) : ~is_ascii_digit(t[j])
    ELSE 0

\* The first maximal run of digit bytes of t, when no failed read precedes it.
FirstDigitRun(t) ==
    LET a == FirstDigitAt(t)
    IN  IF a = 0 THEN <<>>
        ELSE LET z == CHOOSE j \in a..Len(t) :
                        /\ \A k \in a..j : is_ascii_digit(t[k])
                        /\ (j = Len(t) \/ ~is_ascii_digit(t[j + 1]))
             IN  SubSeq(t, a, z)

NoErrBeforeDigits(t) ==
    \A i \in 1..Len(t) : t[i] = ERR => (FirstDigitAt(t) # 0 /\ FirstDigitAt(t) < i)

\* C6: once the marker is matched, the result is the number spelt by the first
\* maximal run of digits after the next `=`, and inserting any run of
\* non-digit bytes between that `=` and the digits does not change it.
C6_GapInsensitive ==
    (sn_pc = "done" /\ sn_open /\ HeadEndsAtEq) =>
        /\ sn_res = sn_ref
        /\ (NoErrBeforeDigits(sn_tail) => sn_res = Ret(ParseU32(FirstDigitRun(sn_tail))))

C6_Witness ==
    /\ sn_pc = "done" /\ sn_open /\ HeadEndsAtEq
    /\ Len(sn_gap) = MaxGap
    /\ sn_res = Ret(Some(12))

(* ------------------------------------------------------------------ *)
(* klu_inc_lib on its own (KluSpec)                                    *)
(* ------------------------------------------------------------------ *)

KluInit ==
    /\ features \in {{}, {"klu"}}
    /\ target_family = "unix"
    /\ MainStart("off")
    /\ SniffIdle
    /\ kl_pc = "ready"
    /\ kl_env \in KluEnvironments
    /\ kl_io = <<>>
    /\ ArgsIdle
    /\ MacroIdle

\* One call of klu_inc_lib, build.rs:76-116
KluCall ==
    /\ kl_pc = "ready"
    /\ LET r == IF feature("klu")
                THEN klu_inc_lib_on(kl_env.probe, kl_env.env_inc, kl_env.env_lib,
                                    kl_env.std_inc, kl_env.std_lib)
                ELSE klu_inc_lib_off
       IN  /\ klu' = [inc |-> r.inc, lib |-> r.lib]
           /\ out' = IF r.warn THEN Append(out, Warning("KLU_INCLUDE_DIR")) ELSE out
    /\ kl_io' = IF feature("klu")
                THEN klu_inc_lib_on_io(kl_env.probe, kl_env.env_inc, kl_env.env_lib)
                ELSE klu_inc_lib_off_io
    /\ kl_pc' = "returned"
    /\ UNCHANGED <<pc, features, target_family, sundials, library_type, build_vendor,
                   sundials_version_major, bindings, bindings_rs, cmake_config,
                   calls, panic>>
    /\ UNCHANGED <<kl_env, snvars, arvars, imvars>>

KluNext == KluCall

KluSpec == KluInit /\ [][KluNext]_vars

ProbeGaveInc == kl_env.probe.ok /\ kl_env.probe.include_paths # <<>>

ProbeGaveLib == kl_env.probe.ok /\ kl_env.probe.link_paths # <<>>

KluWarned == \E i \in 1..Len(out) : out[i] = Warning("KLU_INCLUDE_DIR")

\* C11: with the klu feature enabled, each of the two directories taken
\* separately is the override variable's value whenever that variable is
\* set, whatever the probe reported and whether or not the standard path
\* exists; the standard path is returned only when neither the probe nor the
\* override gave a value.
C11_OverridePrecedence ==
    (kl_pc = "returned" /\ feature("klu")) =>
        /\ kl_env.env_inc.some => klu.inc = kl_env.env_inc
        /\ kl_env.env_lib.some => klu.lib = kl_env.env_lib
        /\ klu.inc = SomeDir(StdInc) => (~kl_env.env_inc.some /\ ~ProbeGaveInc)
        /\ klu.lib = SomeDir(StdLib) => (~kl_env.env_lib.some /\ ~ProbeGaveLib)

\* The include override beats a probe that reported a path while the
\* standard directory exists, and the library comes from the standard path
C11_Witness ==
    /\ kl_pc = "returned"
    /\ feature("klu")
    /\ kl_env.env_inc.some
    /\ ProbeGaveInc
    /\ kl_env.std_inc
    /\ klu.inc = kl_env.env_inc
    /\ klu.lib = SomeDir(StdLib)

\* C12: with the klu feature disabled, klu_inc_lib returns {inc: None,
\* lib: None}, makes no probe, no environment read and no filesystem check,
\* and prints no warning.
C12_DisabledDoesNothing ==
    (kl_pc = "returned" /\ ~feature("klu")) =>
        /\ klu = [inc |-> NoDir, lib |-> NoDir]
        /\ kl_io = <<>>
        /\ out = <<>>

\* Disabled, in an environment where everything could have been found
C12_Witness ==
    /\ kl_pc = "returned"
    /\ ~feature("klu")
    /\ ProbeGaveInc
    /\ kl_env.env_lib.some
    /\ kl_env.std_inc
    /\ klu = [inc |-> NoDir, lib |-> NoDir]

\* C13: with the klu feature enabled, klu_inc_lib returns in every
\* environment without ending the build, and prints the KLU_INCLUDE_DIR
\* warning exactly when the include directory it returns is None, whether or
\* not a library directory was found.
C13_WarnsIffNoInclude ==
    /\ (kl_pc = "ready" /\ feature("klu")) => ENABLED KluCall
    /\ (kl_pc = "returned" /\ feature("klu")) =>
          /\ panic = ""
          /\ KluWarned <=> ~klu.inc.some
          /\ Len(out) <= 1

\* No include directory but a library directory: the warning is printed
C13_Witness ==
    /\ kl_pc = "returned"
    /\ feature("klu")
    /\ ~klu.inc.some
    /\ klu.lib.some
    /\ KluWarned

(* ------------------------------------------------------------------ *)
(* The consumer crate, src/lib.rs:10-22                                *)
(* ------------------------------------------------------------------ *)

\* The value of the cfg sundials_version_major as rustc sees it: the text
\* that `{}` prints for the number, build.rs:290-291
CfgValue(v) == ToDigits(v)

\* lib.rs:12-14: the crate's own SUNComm type
lib_SUNComm(cfg) == cfg = <<"6">> /\ ~feature("nvecopenmp")

\* lib.rs:16-22: the number of functions comm_no_mpi that are compiled
lib_comm_no_mpi(cfg) ==
    (IF cfg = <<"6">> /\ ~feature("nvecopenmp") THEN 1 ELSE 0)
    + (IF cfg = <<"7">> /\ ~feature("nvecopenmp") THEN 1 ELSE 0)

\* C14: for every major version of at least 6 that main emits as
\* sundials_version_major, with nvecopenmp disabled, the consumer crate
\* compiles exactly one function comm_no_mpi.
C14_CommDefinedOnce ==
    \A v \in EmittedVersions :
        (v >= MinAccepted /\ ~feature("nvecopenmp")) =>
            lib_comm_no_mpi(CfgValue(v)) = 1

(* ------------------------------------------------------------------ *)
(* More properties of main (Spec)                                      *)
(* ------------------------------------------------------------------ *)

\* Both SUNDIALS_INCLUDE_DIR and SUNDIALS_LIBRARY_DIR were read and found unset
EnvUnset ==
    /\ \E i \in 1..Len(calls) : calls[i] = Call("env SUNDIALS_INCLUDE_DIR", TRUE, 0)
    /\ \E i \in 1..Len(calls) : calls[i] = Call("env SUNDIALS_LIBRARY_DIR", TRUE, 0)

\* No forced vendor feature, no sparse solver, nothing in the environment, no
\* package manager on the platform, and a first generation that failed
NothingInstalled ==
    /\ ~feature("build_libraries")
    /\ ~feature("klu")
    /\ target_family = "unix"
    /\ EnvUnset
    /\ FirstGenFailed

VendorPanics ==
    {"cmake build failed",
     "Unable to generate bindings of the vendor sundials!",
     "Couldn't write file bindings.rs!",
     "Couldn't read file bindings.rs!",
     "Cannot determine vendor sundials version!"}

ConfigValues(k) ==
    { cmake_config[i][2] : i \in { j \in 1..Len(cmake_config) : cmake_config[j][1] = k } }

\* A vendor build has returned
VendorReturned ==
    \E i \in 1..Len(calls) : calls[i].f = "build_vendor_sundials" /\ calls[i].ok

\* C16: for both values of static_libraries, build_vendor_sundials sets
\* exactly one of BUILD_STATIC_LIBS and BUILD_SHARED_LIBS to ON and the other
\* to OFF, returns kind "static" exactly when BUILD_STATIC_LIBS is ON, sets
\* the test and example keys to OFF, and defines KLU_INCLUDE_DIR and
\* KLU_LIBRARY_DIR exactly when the sparse solver's corresponding directory
\* is present.
C16_VendorConfig ==
    HasCall("build_vendor_sundials") =>
        /\ ConfigValues("BUILD_STATIC_LIBS") =
              {IF feature("static_libraries") THEN "ON" ELSE "OFF"}
        /\ ConfigValues("BUILD_SHARED_LIBS") =
              {IF feature("static_libraries") THEN "OFF" ELSE "ON"}
        /\ (VendorReturned =>
              (library_type = "static" <=> ConfigValues("BUILD_STATIC_LIBS") = {"ON"}))
        /\ (VendorReturned => library_type \in {"static", "dylib"})
        /\ \A k \in {"BUILD_TESTING", "EXAMPLES_INSTALL", "EXAMPLES_ENABLE_C"} :
              ConfigValues(k) = {"OFF"}
        /\ ConfigValues("KLU_INCLUDE_DIR") = (IF klu.inc.some THEN {klu.inc.v} ELSE {})
        /\ ConfigValues("KLU_LIBRARY_DIR") = (IF klu.lib.some THEN {klu.lib.v} ELSE {})

\* A static vendor build with an include directory of the sparse solver but
\* no library directory
C16_Witness ==
    /\ VendorReturned
    /\ feature("static_libraries")
    /\ library_type = "static"
    /\ ConfigValues("BUILD_SHARED_LIBS") = {"OFF"}
    /\ klu.inc.some
    /\ ~klu.lib.some
    /\ ConfigValues("KLU_INCLUDE_DIR") = {klu.inc.v}

\* The indices of the calls of f, in the log of calls
CallsOf(f) == { i \in 1..Len(calls) : calls[i].f = f }

\* C17: in any run of main the bindings file is written at most twice and
\* the vendor build is invoked at most twice; between two writes the first
\* write has completed and a forced vendor build has run, a write that
\* follows a failed first generation comes after the forced vendor build, and
\* the file holds what the last write put there.
C17_SequentialWrites ==
    LET writes == CallsOf("write_to_file")
        gens   == CallsOf("generate_bindings")
    IN  /\ Cardinality(writes) <= 2
        /\ Cardinality(CallsOf("build_vendor_sundials")) <= 2
        /\ \A w1, w2 \in writes :
              w1 < w2 => /\ calls[w1].ok
                         /\ ForcedIdx # 0 /\ w1 < ForcedIdx /\ ForcedIdx < w2
                         /\ calls[ForcedIdx].ok
        /\ \A w \in writes :
              /\ w > 1 /\ calls[w - 1].f = "generate_bindings" /\ calls[w - 1].ok
              /\ FirstGenFailed => (ForcedIdx # 0 /\ ForcedIdx < w)
        /\ bindings_rs.exists <=> \E w \in writes : calls[w].ok
        /\ \A w \in writes :
              (calls[w].ok /\ \A x \in writes : x <= w \/ ~calls[x].ok) =>
                  /\ bindings_rs.gen = Cardinality({ g \in gens : g < w })
                  /\ (\A g \in gens : g < w) =>
                        /\ bindings_rs.unit = bindings.unit
                        /\ bindings_rs.args = bindings.args

\* Two writes with different contents: the file holds the second
C17_Witness ==
    /\ pc = "done"
    /\ Count("write_to_file") = 2
    /\ Count("build_vendor_sundials") = 2
    /\ FirstSniffed /\ FirstSniff.ok
    /\ FirstSniff.v # bindings_rs.unit
    /\ bindings_rs.gen = 2

(* ------------------------------------------------------------------ *)
(* generate_bindings on its own and in main (ArgsSpec)                 *)
(* ------------------------------------------------------------------ *)

\* The optional directories a list is made of
DirChoices == {NoDir, SomeDir("/a"), SomeDir("/b")}

DirLists == UNION { [1..n -> DirChoices] : n \in 0..MaxDirs }

\* Either generate_bindings is called once with some list, or main runs
ArgsInit ==
    /\ SniffIdle
    /\ KluIdle
    /\ MacroIdle
    /\ \/ /\ features = {}
          /\ target_family = "unix"
          /\ MainStart("off")
          /\ ar_pc = "ready"
          /\ ar_dirs \in DirLists
          /\ ar_args = <<>>
       \/ /\ features \in SUBSET OtherFeatures
          /\ target_family \in TargetFamilies
          /\ MainStart("klu")
          /\ ArgsIdle

\* One call of generate_bindings: the arguments given to the translator,
\* build.rs:180-197
ArgsCall ==
    /\ ar_pc = "ready"
    /\ ar_args' = ClangArgs(ar_dirs)
    /\ ar_pc' = "done"
    /\ UNCHANGED ar_dirs
    /\ UNCHANGED mainvars
    /\ UNCHANGED <<snvars, klvars, imvars>>

ArgsNext ==
    \/ ArgsCall
    \/ Next

ArgsSpec == ArgsInit /\ [][ArgsNext]_vars

IsPresent(d) == d.some

\* One -I<dir> per present directory of the list, in the order of the list
OneArgPerPresent(dirs) ==
    LET present == SelectSeq(dirs, IsPresent)
    IN  [i \in 1..Len(present) |-> <<"-I", present[i].v>>]

\* C18: for every list of optional include directories, the translator
\* receives exactly one -I<dir> per present directory, none for an absent
\* one, in the order of the list (before the -D arguments); in main, in the
\* first and in the forced generation, the directory of SUNDIALS comes before
\* that of the sparse solver.
C18_IncludeOrder ==
    /\ ar_pc = "done" =>
          /\ SubSeq(ar_args, 1, Len(ar_args) - Len(DefineArgs)) = OneArgPerPresent(ar_dirs)
          /\ SubSeq(ar_args, Len(ar_args) - Len(DefineArgs) + 1, Len(ar_args)) = DefineArgs
    /\ (bindings.ok /\ pc # "gen2") =>
          bindings.args =
            (IF sundials.inc.some THEN << <<"-I", sundials.inc.v>> >> ELSE <<>>)
            \o (IF klu.inc.some THEN << <<"-I", klu.inc.v>> >> ELSE <<>>)
            \o DefineArgs

\* The forced generation with both directories present
C18_Witness ==
    /\ pc = "write2"
    /\ Count("generate_bindings") = 2
    /\ klu.inc.some
    /\ bindings.ok
    /\ bindings.args[1] = <<"-I", VendorLibrary.inc.v>>
    /\ bindings.args[2] = <<"-I", klu.inc.v>>

(* ------------------------------------------------------------------ *)
(* int_macro on its own (MacroSpec)                                    *)
(* ------------------------------------------------------------------ *)

\* What a macro's name starts with
Stems ==
    {<<>>, <<"C","V">>, <<"I","D","A">>, <<"K","I","N">>, <<"S","U","N">>,
     <<"C">>, <<"C","V","S">>, <<"c","v">>, <<"X","C","V">>, <<"A","R","K">>,
     <<"S","U","N","D","I","A","L","S">>, <<"F","E">>}

\* and what follows
Rests ==
    {<<>>, <<"_">>, <<"_","X">>, <<"_","C","V">>, <<"_","A","_","B">>, <<"_","_","S","U","N">>}

MacroNames == { a \o b : a \in Stems, b \in Rests }

MacroValues == {-2147483647, -1, 0, 1, 2147483647}

MacroInit ==
    /\ features = {}
    /\ target_family = "unix"
    /\ MainStart("off")
    /\ SniffIdle
    /\ KluIdle
    /\ ArgsIdle
    /\ im_pc = "ready"
    /\ im_name \in MacroNames
    /\ im_value \in MacroValues
    /\ im_res = NoKind

\* One call of the callback by the translator
MacroCall ==
    /\ im_pc = "ready"
    /\ im_res' = int_macro(im_name, im_value)
    /\ im_pc' = "done"
    /\ UNCHANGED <<im_name, im_value>>
    /\ UNCHANGED mainvars
    /\ UNCHANGED <<snvars, klvars, arvars>>

MacroNext == MacroCall

MacroSpec == MacroInit /\ [][MacroNext]_vars

\* The part of the name before its first underscore, the whole name when it
\* has none
FirstSegment(name) ==
    LET us == { i \in 1..Len(name) : name[i] = "_" }
    IN  IF us = {} THEN name
        ELSE SubSeq(name, 1, (CHOOSE i \in us : \A j \in us : i <= j) - 1)

ModuleTags == {<<"C","V">>, <<"I","D","A">>, <<"K","I","N">>, <<"S","U","N">>}

\* C19: int_macro returns the signed int kind exactly when the part of the
\* name before its first underscore (the whole name when it has none) is one
\* of CV, IDA, KIN, SUN, and None otherwise; the result is the same for
\* every value of the macro.
C19_SignedPrefix ==
    im_pc = "done" =>
        /\ im_res = (IF FirstSegment(im_name) \in ModuleTags THEN SomeInt ELSE NoKind)
        /\ \A v \in MacroValues : int_macro(im_name, v) = im_res

\* A tagged name with further segments, and a negative value
C19_Witness ==
    /\ im_pc = "done"
    /\ im_name = <<"I","D","A","_","A","_","B">>
    /\ im_value = -1
    /\ im_res = SomeInt

\* The sniff of the file as it is now
SniffOfFile == get_sundials_version_major(TRUE, Contents(bindings_rs))

\* C20: when the digits after the marker's `=` denote a number above
\* u32::MAX, get_sundials_version_major returns None, not a wrapped or
\* truncated number; a system library with such a version is never accepted:
\* main goes on to the forced vendor build and emits nothing meanwhile.
C20_OverflowIsNone ==
    bindings_rs.unit = TooBig =>
        /\ ~FitsU32(TooBigDigits)
        /\ SniffOfFile = Ret(None)
        /\ pc \notin EmitStates
        /\ bindings_rs.gen = 1 =>
              /\ FirstSniffed => /\ ~FirstSniff.ok
                                  /\ FirstSniff.v = 0
                                  /\ build_vendor
                                  /\ (pc = "forced" \/ ForcedStarted)
              /\ out = SelectSeq(out, LAMBDA d : d.d = "warning" /\ d.name = "KLU_INCLUDE_DIR")

\* The system bindings declared 2^32, the sniff returned None and the forced
\* vendor build has run
C20_Witness ==
    /\ pc = "gen2"
    /\ bindings_rs.unit = TooBig
    /\ bindings_rs.gen = 1
    /\ FirstSniffed
    /\ ~FirstSniff.ok
    /\ sundials = VendorLibrary
    /\ Count("build_vendor_sundials") = 1

====
